---- MODULE Spec2Model ----
(***************************************************************************)
(* Poetry Camera App (src/poetry_camera_app.jsx): the History screen's     *)
(* long-press delete with a 5 second undo window.                          *)
(*                                                                         *)
(* State of the program that the deferred-deletion mechanism touches:      *)
(*   screen    App's useState("camera")                                    *)
(*   shown     the screen component that <AnimatePresence mode="wait">     *)
(*             keeps mounted: the one of `screen`, or the previous one     *)
(*             while its exit transition (0.2 s) runs                      *)
(*   exiting   "no", or how far the exit transition of `shown` is: "early" *)
(*             (started since the last instant of the clock) or "late"     *)
(*             (an instant has passed since; it ends before the next one)  *)
(*   shots     HistoryScreen's useState(initialShots), as of its last      *)
(*             render: the ShotItems that are mounted                      *)
(*   pending   HistoryScreen's useState(null), as of its last render: NULL *)
(*             or {id, secondsLeft}; the value the closures of that render *)
(*             (handleLongPressDelete, undoDelete) hold                    *)
(*   lanes     HistoryScreen's fiber, or its alternate, has lanes set: an  *)
(*             update is queued, or the last render of the fiber was one   *)
(*             of its own update that changed its state.  While FALSE      *)
(*             (after mount, after a render that App started with nothing  *)
(*             queued here, after a render of updates that changed         *)
(*             nothing), React runs a setState updater at once, in the     *)
(*             caller                                                      *)
(*   queue     the state updates queued and not yet rendered, as the       *)
(*             [shots, pending] that processing them in order gives, with  *)
(*             fin, the id whose record a queued finalizing updater (lines *)
(*             144-146) will discard when it runs (0 if none), and list,   *)
(*             whether a setShots update is among them (its updater makes  *)
(*             a new array, whatever it holds); or NoUpdates               *)
(*   effect    passive effects are outstanding: the countdown effect of    *)
(*             the last render, or the cleanup (line 151) of a             *)
(*             HistoryScreen that has been unmounted                       *)
(*   interval  the setInterval armed by the countdown effect               *)
(*   dead      the HistoryScreen that has been unmounted and whose cleanup *)
(*             is outstanding: its last rendered pending and its lanes     *)
(*             (its interval callback can still run); else NoDead          *)
(*   timers    the setTimeout timers armed by ShotItem.startPress, in the  *)
(*             order they were armed (all have the same delay, so they     *)
(*             fire in that order).  A timer's owner says where the        *)
(*             ShotItem that armed it stands: "ref" (mounted, and its      *)
(*             timerRef.current is this timer), "mounted" (mounted, but    *)
(*             timerRef.current was overwritten by a later startPress),    *)
(*             "unmounted" (a render removed it), "gone" (HistoryScreen    *)
(*             itself was unmounted)                                       *)
(* A timer callback only queues state updates; React renders them in a     *)
(* later task and runs the effect in a task after that, and other due      *)
(* callbacks and user input can come in between.  A click handler's        *)
(* updates are rendered before the click returns, without the updates that *)
(* timer callbacks have queued (those are rendered later, in their place   *)
(* in the queue), and the effects of that render run before it returns.    *)
(* Every render begins by running the passive effects still outstanding.   *)
(* Time is counted in milliseconds and advances in steps of TickMs, once   *)
(* everything due at an instant has run; press timers run in the order     *)
(* they were armed.                                                        *)
(* History variables record what has happened; no action reads them to     *)
(* decide what the program does:                                           *)
(*   finalized the ids whose finalizing updater has run (line 146)         *)
(*   cycle     the deletion cycle in progress, or the one that the last    *)
(*             step ended: the id, the shots before the delete, the        *)
(*             interval callbacks that have run so far (ticks), and the    *)
(*             phase: "pending", "expired" once the callback of the        *)
(*             finalizing tick has run, "undone" after undoDelete          *)
(*   last      what the last step was, where a property needs it: "undo"   *)
(*             after undoDelete, Ended(id) after the timer of the press    *)
(*             session on id ran and was rejected (item still mounted),    *)
(*             "rearm" after a startPress that directly followed that      *)
(*   inputs    the number of user inputs so far                            *)
(* and the field `ended` of a press timer: its ShotItem got a press-end or *)
(* press-cancel event after the timer was armed (recorded under SpecPress) *)
(***************************************************************************)
EXTENDS Integers, Sequences, FiniteSets, TLC

VARIABLES screen, shown, exiting, shots, pending, lanes, queue, effect,
          interval, dead, timers, finalized, cycle, last, inputs

vars == <<screen, shown, exiting, shots, pending, lanes, queue, effect,
          interval, dead, timers, finalized, cycle, last, inputs>>

(* ----------------------------- constants ------------------------------ *)
NumShots == 8
UndoWindow == 5
LongPressMs == 3000
TickMs == 1000
NoTimer == 0

(* ------------------------------- bounds ------------------------------- *)
\* the user presses only the items with id 1..MaxPressId
MaxPressId == 2
\* at most MaxTimers press timers are armed at the same time
MaxTimers == 3
\* the user makes at most MaxInputs inputs (clicks, press events)
MaxInputs == 5
\* undoDelete called directly: the items 1..MaxUndoIds may have left the list
MaxUndoIds == 4

(* ------------------------------ helpers ------------------------------- *)
NULL == [null |-> TRUE]

ShotIds == 1..NumShots

initialShots == [i \in 1..NumShots |-> [id |-> i]]

Ids(s) == {s[k].id : k \in 1..Len(s)}

\* s.filter((shot) => shot.id !== id)
FilterOut(s, id) == SelectSeq(s, LAMBDA shot : shot.id # id)

\* insertion of x into a list sorted by (a, b) => a.id - b.id, after equals
RECURSIVE InsertById(_, _)
InsertById(s, x) ==
  IF s = << >> THEN <<x>>
  ELSE IF x.id < Head(s).id THEN <<x>> \o s
       ELSE <<Head(s)>> \o InsertById(Tail(s), x)

\* [...].sort((a, b) => a.id - b.id): a stable sort by id
RECURSIVE SortById(_)
SortById(s) ==
  IF s = << >> THEN << >>
  ELSE InsertById(SortById(SubSeq(s, 1, Len(s) - 1)), s[Len(s)])

\* timerRef.current of the mounted ShotItem of id: the position in timers of
\* the timer it holds, NoTimer when it is null or names a timer that has
\* fired or was cleared (clearTimeout of such an id does nothing)
timerRef(q, id) ==
  IF \E k \in 1..Len(q) : q[k].id = id /\ q[k].owner = "ref"
    THEN CHOOSE k \in 1..Len(q) : q[k].id = id /\ q[k].owner = "ref"
    ELSE NoTimer

\* clearTimeout(k)
ClearTimeout(q, k) == [j \in 1..(Len(q) - 1) |-> IF j < k THEN q[j] ELSE q[j + 1]]

\* a render with the list s unmounts the ShotItems whose id is not in s:
\* their armed timers stay armed
Unmount(q, s) ==
  [k \in 1..Len(q) |->
     IF q[k].id \notin Ids(s) /\ q[k].owner \in {"ref", "mounted"}
       THEN [q[k] EXCEPT !.owner = "unmounted"] ELSE q[k]]

\* no state update is queued
NoUpdates == [none |-> TRUE]

\* no queued updater finalizes
NoFin == 0

\* the state that the queued updates give when they are processed
Latest(s, p, q) ==
  IF q = NoUpdates THEN [shots |-> s, pending |-> p]
  ELSE [shots |-> q.shots, pending |-> q.pending]

\* the queue after more updates, which give the state st; list says that a
\* setShots update is among them
Enqueue(q, st, fin, list) ==
  [shots |-> st.shots, pending |-> st.pending,
   fin |-> IF fin # NoFin THEN fin
           ELSE IF q = NoUpdates THEN NoFin ELSE q.fin,
   list |-> list \/ (q # NoUpdates /\ q.list)]

\* no unmounted HistoryScreen awaits its cleanup
NoDead == [none |-> TRUE]

NoCycle == [none |-> TRUE]

\* a cycle that has ended is remembered for one step only
Carry(c) == IF c # NoCycle /\ c.phase # "pending" THEN NoCycle ELSE c

Other == "other"

\* the press session on the mounted ShotItem of id has just ended: its timer
\* ran and the request was rejected
Ended(id) == "ended" \o ToString(id)

\* no timer callback is due
Quiet ==
  /\ \A k \in 1..Len(timers) : timers[k].left > 0
  /\ interval # NULL => interval.left > 0

\* nothing is due and React has no work left
Settled == Quiet /\ queue = NoUpdates /\ ~effect

(* -------------------------------- Init -------------------------------- *)
Init ==
  /\ screen = "camera"
  /\ shown = "camera"
  /\ exiting = "no"
  /\ shots = initialShots
  /\ pending = NULL
  /\ lanes = FALSE
  /\ queue = NoUpdates
  /\ effect = FALSE
  /\ interval = NULL
  /\ dead = NoDead
  /\ timers = << >>
  /\ finalized = {}
  /\ cycle = NoCycle
  /\ last = Other
  /\ inputs = 0

(* ----------------------- the handlers, as functions ------------------- *)
\* (variant) the filter written as shot.id > id
handleLongPressDeleteAbove(st, id, sawPending) ==
  IF sawPending THEN st
  ELSE [shots |-> SelectSeq(st.shots, LAMBDA shot : shot.id > id),
        pending |-> [id |-> id, secondsLeft |-> UndoWindow]]

\* (variant) the setShots call left out
handleLongPressDeleteKeep(st, id, sawPending) ==
  IF sawPending THEN st
  ELSE [shots |-> st.shots,
        pending |-> [id |-> id, secondsLeft |-> UndoWindow]]

\* handleLongPressDelete(id), called through a closure whose `pending` was
\* truthy (sawPending) or null when the closure was created.  st is the
\* current state [shots, pending]; setShots takes an updater, so the filter
\* applies to the current shots.
handleLongPressDelete(st, id, sawPending) ==
  IF sawPending THEN st
  ELSE [shots |-> FilterOut(st.shots, id),
        pending |-> [id |-> id, secondsLeft |-> UndoWindow]]

\* (variant) the finalize test written as secondsLeft <= 0
countdownStepLate(p) ==
  IF p = NULL THEN NULL
  ELSE IF p.secondsLeft <= 0 THEN NULL
       ELSE [p EXCEPT !.secondsLeft = p.secondsLeft - 1]

\* the updater the interval callback passes to setPending
countdownStep(p) ==
  IF p = NULL THEN NULL
  ELSE IF p.secondsLeft <= 1 THEN NULL
       ELSE [p EXCEPT !.secondsLeft = p.secondsLeft - 1]

\* (variant) a one-shot timer armed only for a fresh record: after its
\* first tick nothing is re-armed
countdownEffectOnce(p) ==
  IF p = NULL \/ p.secondsLeft < UndoWindow THEN NULL
  ELSE [left |-> TickMs]

\* (variant) an effect that arms the interval and never clears it
countdownEffectLeak(p) == [left |-> TickMs]

\* the countdown effect, run after a render in which pending changed: the
\* cleanup clears the previous interval, the body arms one unless !pending
countdownEffect(p) == IF p = NULL THEN NULL ELSE [left |-> TickMs]

\* (variant) undo puts every shot of the initial list back
undoDeleteRestoreAll(st) ==
  IF st.pending = NULL THEN st
  ELSE [shots |-> initialShots, pending |-> NULL]

\* (variant) undo without the sort
undoDeleteAppend(st) ==
  IF st.pending = NULL THEN st
  ELSE [shots |-> Append(st.shots, [id |-> st.pending.id]),
        pending |-> NULL]

\* (variant) undo without the guard of line 155, resetting the list
undoDeleteUnguarded(st) == [shots |-> initialShots, pending |-> NULL]

\* undoDelete() of the last render: st.pending is the pending of its
\* closure, st.shots the list the setShots updater is applied to
undoDelete(st) ==
  IF st.pending = NULL THEN st
  ELSE [shots |-> SortById(Append(st.shots, [id |-> st.pending.id])),
        pending |-> NULL]

\* the events a ShotItem's div has a handler for (each calls endPress)
EndHandled == {"mouseup", "mouseleave", "touchend"}
\* the events that end or cancel a press
PressEndEvents == EndHandled \cup {"touchcancel"}

\* (variant) a timer that stays armed after it ran, as setInterval would
firedRearm(q) == Append(Tail(q), [Head(q) EXCEPT !.left = LongPressMs])

\* setTimeout is single-shot: the timer that ran is no longer armed
fired(q) == Tail(q)

\* endPress(): timerRef.current && clearTimeout(timerRef.current)
endPress(q, ref) == IF ref # NoTimer THEN ClearTimeout(q, ref) ELSE q

\* startPress() overwrites timerRef.current without clearing the timer it held
Overwrite(q, id) ==
  [k \in 1..Len(q) |->
     IF q[k].id = id /\ q[k].owner = "ref"
       THEN [q[k] EXCEPT !.owner = "mounted"] ELSE q[k]]

\* (variant) startPress that does nothing while a timer of this ShotItem is
\* still armed
startPressKeep(q, id, sawPending) ==
  IF \E k \in 1..Len(q) : q[k].id = id /\ q[k].owner \in {"ref", "mounted"}
    THEN q
    ELSE Append(q, [id |-> id, left |-> LongPressMs,
                    sawPending |-> sawPending,
                    owner |-> "ref", ended |-> FALSE])

\* startPress(): timerRef.current = setTimeout(() => onLongPress(id), 3000),
\* where onLongPress closes over the pending of the latest render
startPress(q, id, sawPending) ==
  Append(Overwrite(q, id),
         [id |-> id, left |-> LongPressMs, sawPending |-> sawPending,
          owner |-> "ref", ended |-> FALSE])

\* history: the press sessions of the mounted ShotItem of id have ended
MarkEnded(q, id) ==
  [k \in 1..Len(q) |->
     IF q[k].id = id /\ q[k].owner \in {"ref", "mounted"}
       THEN [q[k] EXCEPT !.ended = TRUE] ELSE q[k]]

(* ------------------------------ navigation ---------------------------- *)
\* the screen component leaves: its exit transition starts, unless the
\* previous screen is still on its way out
startExit == IF exiting = "no" THEN "early" ELSE exiting

\* the interval once the passive effects still outstanding have run, as they
\* do at the beginning of every render
Flushed == IF effect THEN countdownEffect(pending) ELSE interval

\* a click on the History button of CameraScreen (mounted until its exit
\* transition is over): onHistory.  React renders App before the click
\* returns.
OpenHistory ==
  /\ inputs < MaxInputs
  /\ inputs' = inputs + 1
  /\ shown = "camera"
  /\ screen # "history"
  /\ screen' = "history"
  /\ exiting' = startExit
  /\ effect' = FALSE
  /\ interval' = Flushed
  /\ dead' = NoDead
  /\ last' = Other
  /\ UNCHANGED <<shown, shots, pending, lanes, queue, timers, finalized>>
  /\ cycle' = Carry(cycle)

\* a click on the Settings button of CameraScreen: onSettings
OpenSettings ==
  /\ inputs < MaxInputs
  /\ inputs' = inputs + 1
  /\ shown = "camera"
  /\ screen # "settings"
  /\ screen' = "settings"
  /\ exiting' = startExit
  /\ effect' = FALSE
  /\ interval' = Flushed
  /\ dead' = NoDead
  /\ last' = Other
  /\ UNCHANGED <<shown, shots, pending, lanes, queue, timers, finalized>>
  /\ cycle' = Carry(cycle)

\* a click on Back of HistoryScreen or SettingsScreen: onBack only sets
\* screen; the screen stays mounted while its exit transition runs.  React
\* renders App before the click returns: the outstanding effect runs first,
\* the updates that timer callbacks queued in HistoryScreen are left for
\* their own render, and with none queued the fiber is left without lanes.
Back ==
  /\ inputs < MaxInputs
  /\ inputs' = inputs + 1
  /\ shown \in {"history", "settings"}
  /\ screen = shown
  /\ screen' = "camera"
  /\ exiting' = startExit
  /\ effect' = FALSE
  /\ interval' = Flushed
  /\ dead' = NoDead
  /\ lanes' = IF shown = "history" THEN queue # NoUpdates ELSE lanes
  /\ last' = Other
  /\ UNCHANGED <<shown, shots, pending, queue, timers, finalized>>
  /\ cycle' = Carry(cycle)

\* the exit transition is over: AnimatePresence renders again, the old
\* screen is unmounted and the screen of `screen` is mounted.  Unmounting
\* HistoryScreen discards the component state and its queued updates (the
\* variables hold what the next mount starts from); its effect cleanup
\* (clearInterval, line 151) is left for React's passive-effects task, so
\* the interval stays armed until then; the press timers stay armed but
\* their setState calls address an unmounted component.
ExitComplete ==
  /\ UNCHANGED inputs
  /\ exiting # "no"
  /\ shown' = screen
  /\ exiting' = "no"
  /\ interval' = Flushed
  /\ lanes' = FALSE
  /\ IF shown = "history"
       THEN /\ shots' = initialShots
            /\ pending' = NULL
            /\ queue' = NoUpdates
            /\ effect' = (pending # NULL)
            /\ dead' = IF pending # NULL
                         THEN [pending |-> pending, lanes |-> lanes]
                         ELSE NoDead
            /\ timers' = [k \in 1..Len(timers) |->
                            [timers[k] EXCEPT !.owner = "gone"]]
            /\ finalized' = {}
            /\ cycle' = NoCycle
       ELSE /\ UNCHANGED <<shots, pending, queue, timers, finalized>>
            /\ effect' = FALSE
            /\ dead' = NoDead
            /\ cycle' = Carry(cycle)
  /\ last' = Other
  /\ UNCHANGED screen

(* ---------------------------- press detector -------------------------- *)
\* onMouseDown / onTouchStart on the mounted ShotItem of id: startPress()
StartPress(id) ==
  /\ inputs < MaxInputs
  /\ inputs' = inputs + 1
  /\ shown = "history"
  /\ id \in Ids(shots)
  /\ id <= MaxPressId
  /\ Len(timers) < MaxTimers
  /\ timers' = startPress(timers, id, pending # NULL)
  /\ last' = IF last = Ended(id) THEN "rearm" ELSE Other
  /\ UNCHANGED <<screen, shown, exiting, shots, pending, lanes, queue,
                 effect, interval, dead, finalized>>
  /\ cycle' = Carry(cycle)

\* a press-end or press-cancel event ev on the mounted ShotItem of id; seen
\* says whether the history field `ended` records it
PressEnd(id, ev, seen) ==
  /\ inputs < MaxInputs
  /\ inputs' = inputs + 1
  /\ shown = "history"
  /\ id \in Ids(shots)
  /\ id <= MaxPressId
  /\ LET q == IF ev \in EndHandled
                THEN endPress(timers, timerRef(timers, id))
                ELSE timers
     IN timers' = IF seen THEN MarkEnded(q, id) ELSE q
  /\ last' = Other
  /\ UNCHANGED <<screen, shown, exiting, shots, pending, lanes, queue,
                 effect, interval, dead, finalized>>
  /\ cycle' = Carry(cycle)

\* the head press timer is due: () => onLongPress(id).  The callback queues
\* the updates of handleLongPressDelete; nothing is rendered yet.
TimerFire ==
  /\ UNCHANGED inputs
  /\ timers # << >>
  /\ Head(timers).left = 0
  /\ LET t == Head(timers)
         now == Latest(shots, pending, queue)
         res == handleLongPressDelete(now, t.id, t.sawPending)
         accepted == t.owner # "gone" /\ ~t.sawPending
     IN /\ queue' = IF accepted THEN Enqueue(queue, res, NoFin, TRUE)
                    ELSE queue
        /\ lanes' = IF accepted THEN TRUE ELSE lanes
        /\ dead' = IF dead # NoDead /\ t.owner = "gone" /\ ~t.sawPending
                     THEN [dead EXCEPT !.lanes = TRUE] ELSE dead
        /\ cycle' = IF accepted
                      THEN [id |-> t.id, ticks |-> 0, before |-> now.shots,
                            fromIdle |-> (pending = NULL
                                          /\ now.pending = NULL),
                            present |-> (t.id \in Ids(now.shots)),
                            phase |-> "pending"]
                      ELSE Carry(cycle)
        /\ last' = IF t.owner = "ref" /\ t.sawPending
                    THEN Ended(t.id) ELSE Other
  /\ timers' = fired(timers)
  /\ UNCHANGED <<screen, shown, exiting, shots, pending, effect, interval,
                 finalized>>

(* ------------------------------ controller ---------------------------- *)
\* the interval armed by the countdown effect is due: its callback calls
\* setPending(updater), and the interval stays armed for the next period.
\* React runs the updater at once when the fiber has no lanes (and then
\* drops an update that changes nothing), otherwise in the render of the
\* queue; the updater of the finalizing tick clears the interval where it
\* runs (line 145).
IntervalTick ==
  /\ UNCHANGED inputs
  /\ interval # NULL
  /\ interval.left = 0
  /\ shown = "history"
  /\ LET now == Latest(shots, pending, queue)
         p == countdownStep(now.pending)
         final == now.pending # NULL /\ p = NULL
         dropped == ~lanes /\ now.pending = NULL
     IN /\ queue' = IF dropped THEN queue
                    ELSE Enqueue(queue, [shots |-> now.shots, pending |-> p],
                                 IF final /\ lanes THEN now.pending.id
                                 ELSE NoFin,
                                 FALSE)
        /\ lanes' = IF dropped THEN lanes ELSE TRUE
        /\ interval' = IF final /\ ~lanes THEN NULL ELSE [left |-> TickMs]
        /\ finalized' = IF final /\ ~lanes
                          THEN finalized \cup {now.pending.id}
                          ELSE finalized
        /\ cycle' = IF Carry(cycle) = NoCycle THEN NoCycle
                    ELSE [cycle EXCEPT !.ticks = cycle.ticks + 1,
                                       !.phase = IF p = NULL THEN "expired"
                                                 ELSE cycle.phase]
  /\ last' = Other
  /\ UNCHANGED <<screen, shown, exiting, shots, pending, effect, dead,
                 timers>>

\* the interval of a HistoryScreen that has been unmounted is due before
\* its cleanup has run: setPending reaches no root and nothing is rendered,
\* but with no lanes on the fiber React still runs the updater, on the
\* pending of the last render
DeadTick ==
  /\ UNCHANGED inputs
  /\ interval # NULL
  /\ interval.left = 0
  /\ shown # "history"
  /\ LET runs == dead # NoDead /\ ~dead.lanes
         final == runs /\ countdownStep(dead.pending) = NULL
     IN /\ interval' = IF final THEN NULL ELSE [left |-> TickMs]
        /\ dead' = IF runs THEN [dead EXCEPT !.lanes = TRUE] ELSE dead
  /\ last' = Other
  /\ UNCHANGED <<screen, shown, exiting, shots, pending, lanes, queue,
                 effect, timers, finalized>>
  /\ cycle' = Carry(cycle)

\* React renders HistoryScreen with the queued updates: the effect still
\* outstanding runs first; a queued finalizing updater clears the interval
\* (line 145); the ShotItems that left the list are unmounted; the
\* countdown effect is to run if pending has changed (a record is a new
\* object every time).  The interval a queued updater clears is the one
\* whose callback queued it: the armed one, as no effect has run since.
\* When the updates leave both states as they are (pending null as before,
\* no setShots among them), React bails out of the render and the fiber is
\* left without lanes.
Render ==
  /\ UNCHANGED inputs
  /\ queue # NoUpdates
  /\ shots' = queue.shots
  /\ pending' = queue.pending
  /\ queue' = NoUpdates
  /\ effect' = (pending # NULL \/ queue.pending # NULL)
  /\ interval' = IF effect THEN countdownEffect(pending)
                 ELSE IF queue.fin # NoFin THEN NULL ELSE interval
  /\ finalized' = IF queue.fin # NoFin THEN finalized \cup {queue.fin}
                  ELSE finalized
  /\ timers' = Unmount(timers, queue.shots)
  /\ last' = Other
  /\ lanes' = (queue.list \/ pending # NULL \/ queue.pending # NULL)
  /\ UNCHANGED <<screen, shown, exiting, dead>>
  /\ cycle' = cycle

\* React runs the passive effects outstanding: the countdown effect of the
\* last render (cleanup, then body), or the cleanup of an unmounted
\* HistoryScreen
RunEffect ==
  /\ UNCHANGED inputs
  /\ effect
  /\ effect' = FALSE
  /\ interval' = countdownEffect(pending)
  /\ dead' = NoDead
  /\ last' = Other
  /\ UNCHANGED <<screen, shown, exiting, shots, pending, lanes, queue,
                 timers, finalized>>
  /\ cycle' = cycle

\* a click on the Undo button, which exists only while the pending of the
\* last render is non-null (line 175): undoDelete() of that render.  React
\* renders the click's updates before the click returns, on the state of
\* the last render and without the updates that timer callbacks have
\* queued; those stay queued, with the click's update of the same state
\* behind them, for the render that was scheduled for them.  The effect of
\* the click's render (pending is null: the cleanup) runs before the click
\* returns.
UndoDelete ==
  /\ inputs < MaxInputs
  /\ inputs' = inputs + 1
  /\ shown = "history"
  /\ pending # NULL
  /\ LET res == undoDelete([shots |-> shots, pending |-> pending])
     IN /\ shots' = res.shots
        /\ pending' = res.pending
        /\ timers' = Unmount(timers, res.shots)
        /\ interval' = countdownEffect(res.pending)
  /\ queue' = IF queue = NoUpdates THEN NoUpdates
              ELSE Enqueue(queue,
                           undoDelete([shots |-> queue.shots,
                                       pending |-> pending]),
                           NoFin, FALSE)
  /\ lanes' = TRUE
  /\ effect' = FALSE
  /\ cycle' = IF cycle # NoCycle /\ cycle.phase = "pending"
                 /\ cycle.id = pending.id
                THEN [cycle EXCEPT !.phase = "undone"]
                ELSE NoCycle
  /\ last' = "undo"
  /\ UNCHANGED <<screen, shown, exiting, dead, finalized>>

(* -------------------------------- time -------------------------------- *)
\* TickMs elapse, once everything due has run.  An exit transition (0.2 s)
\* that has seen an instant pass is over before the next one.
Advance ==
  /\ UNCHANGED inputs
  /\ timers # << >> \/ interval # NULL
  /\ Settled
  /\ exiting # "late"
  /\ exiting' = IF exiting = "early" THEN "late" ELSE exiting
  /\ timers' = [k \in 1..Len(timers) |->
                  [timers[k] EXCEPT !.left = timers[k].left - TickMs]]
  /\ interval' = IF interval = NULL THEN NULL
                 ELSE [left |-> interval.left - TickMs]
  /\ last' = Other
  /\ UNCHANGED <<screen, shown, shots, pending, lanes, queue, effect, dead,
                 finalized>>
  /\ cycle' = Carry(cycle)

EndPress(id, ev) == PressEnd(id, ev, FALSE)

EndPressSeen(id, ev) == PressEnd(id, ev, TRUE)

Next ==
  \/ OpenHistory
  \/ OpenSettings
  \/ Back
  \/ ExitComplete
  \/ Render
  \/ RunEffect
  \/ \E id \in 1..MaxPressId : StartPress(id)
  \/ \E id \in 1..MaxPressId : \E ev \in PressEndEvents : EndPress(id, ev)
  \/ TimerFire
  \/ IntervalTick
  \/ DeadTick
  \/ UndoDelete
  \/ Advance

Spec == Init /\ [][Next]_vars

\* the same program, with the press-end events recorded in the timers
NextPress ==
  \/ OpenHistory
  \/ OpenSettings
  \/ Back
  \/ ExitComplete
  \/ Render
  \/ RunEffect
  \/ \E id \in 1..MaxPressId : StartPress(id)
  \/ \E id \in 1..MaxPressId : \E ev \in PressEndEvents : EndPressSeen(id, ev)
  \/ TimerFire
  \/ IntervalTick
  \/ DeadTick
  \/ UndoDelete
  \/ Advance

SpecPress == Init /\ [][NextPress]_vars

\* the liveness specification follows the program for one input fewer
MaxLiveInputs == MaxInputs - 1

NextLive ==
  \/ inputs < MaxLiveInputs /\ OpenHistory
  \/ inputs < MaxLiveInputs /\ OpenSettings
  \/ inputs < MaxLiveInputs /\ Back
  \/ ExitComplete
  \/ Render
  \/ RunEffect
  \/ \E id \in 1..MaxPressId : inputs < MaxLiveInputs /\ StartPress(id)
  \/ \E id \in 1..MaxPressId : \E ev \in PressEndEvents :
       inputs < MaxLiveInputs /\ EndPress(id, ev)
  \/ TimerFire
  \/ IntervalTick
  \/ DeadTick
  \/ inputs < MaxLiveInputs /\ UndoDelete
  \/ Advance

\* The browser's task queue is fair: a due setInterval or setTimeout
\* callback, React's render and effect tasks and the end of an exit
\* transition are eventually run, and the clock keeps going while a timer
\* is armed.  User input and navigation get no fairness.
SpecLive ==
  /\ Init /\ [][NextLive]_vars
  /\ WF_vars(Advance)
  /\ WF_vars(IntervalTick)
  /\ WF_vars(DeadTick)
  /\ WF_vars(TimerFire)
  /\ WF_vars(Render)
  /\ WF_vars(RunEffect)
  /\ WF_vars(ExitComplete)

(* --------------------- undoDelete, called directly -------------------- *)
\* the initial list without the ids of S
Without(S) == SelectSeq(initialShots, LAMBDA shot : shot.id \notin S)

\* HistoryScreen as rendered, with React at rest: the items of S have left
\* the list, one of them may be pending, the others are finalized
InitUndo ==
  /\ screen = "history"
  /\ shown = "history"
  /\ exiting = "no"
  /\ \E S \in SUBSET (1..MaxUndoIds) :
       /\ shots = Without(S)
       /\ pending \in {NULL} \cup
                      {[id |-> i, secondsLeft |-> k] :
                         i \in S, k \in 1..UndoWindow}
       /\ lanes = (S # {})
       /\ finalized = IF pending = NULL THEN S ELSE S \ {pending.id}
  /\ queue = NoUpdates
  /\ effect = FALSE
  /\ interval = countdownEffect(pending)
  /\ dead = NoDead
  /\ timers = << >>
  /\ cycle = NoCycle
  /\ last = Other
  /\ inputs = 0

\* undoDelete() is called, whether or not the Undo button is there; React
\* renders the updates it makes, and runs the effect, before the call's
\* event returns
UndoCall ==
  /\ last = Other
  /\ LET seen == [shots |-> shots, pending |-> pending]
         res == undoDelete(seen)
     IN /\ shots' = res.shots
        /\ pending' = res.pending
        /\ interval' = IF res = seen THEN interval
                       ELSE countdownEffect(res.pending)
        /\ lanes' = IF res = seen THEN lanes ELSE TRUE
  /\ last' = "undo"
  /\ UNCHANGED <<screen, shown, exiting, queue, effect, dead, timers,
                 finalized, cycle, inputs>>

NextUndo == UndoCall

SpecUndo == InitUndo /\ [][NextUndo]_vars

(* ======================================================================= *)
(* Properties                                                              *)
(* ======================================================================= *)
\* the controller's state is the pending of the last render
Pending == pending # NULL
Idle == pending = NULL
Absent(i) == i \notin Ids(shots)

\* the state with the queued updates processed
Now == Latest(shots, pending, queue)

\* React has rendered every update and run the effect
Stable == queue = NoUpdates /\ ~effect

\* a press timer's callback runs and reaches the mounted HistoryScreen
Delivered == TimerFire /\ Head(timers).owner # "gone"

\* C1: a removal becomes permanent only after its undo window has elapsed:
\* every id of the initial list that is absent from shots is the pending id
\* or had its countdown run out.
C1_RemovalPermanentOnlyAfterWindow ==
  \A i \in ShotIds :
    Absent(i) => (Pending /\ pending.id = i) \/ i \in finalized

\* C2: a long-press delivered while the controller is Pending is rejected:
\* it queues no update, so shots and the pending record stay unchanged.
C2_RequestWhilePendingRejected ==
  [][Delivered /\ Pending /\ Stable => queue' = NoUpdates]_vars

\* the ids that are absent from shots and that a click on Undo would put
\* back
TentativelyAbsent ==
  {i \in ShotIds :
     Absent(i)
     /\ i \in Ids(undoDelete([shots |-> shots,
                               pending |-> pending]).shots)}

\* C3: single slot: pending is null or one record, and at most one id is
\* tentatively absent (absent from shots and put back by an undo).
C3_SingleSlot ==
  /\ Idle \/ DOMAIN pending = {"id", "secondsLeft"}
  /\ Cardinality(TentativelyAbsent) <= 1
  /\ (Pending /\ Stable) => TentativelyAbsent = {pending.id}

\* C3 witness: a deletion is pending while an earlier one is already final
C3_Witness ==
  /\ Pending
  /\ TentativelyAbsent = {pending.id}
  /\ \E i \in finalized : Absent(i) /\ i # pending.id

\* C4: a long-press delivered in Idle for an id present in shots is
\* accepted: it queues the removal of the id and pending = {id, 5} (whose
\* render starts the tick).
C4_IdleRequestAccepted ==
  [][Delivered /\ Idle /\ Stable /\ ~Absent(Head(timers).id) =>
       Now' = [shots |-> FilterOut(shots, Head(timers).id),
               pending |-> [id |-> Head(timers).id,
                            secondsLeft |-> UndoWindow]]]_vars

\* C5: a long-press delivered in Idle for an id that is not in shots is a
\* no-op: pending stays null, no tick is started, shots is unchanged.
C5_AbsentIdIsNoOp ==
  [][Delivered /\ Idle /\ Stable /\ Absent(Head(timers).id) =>
       queue' = NoUpdates /\ interval' = NULL]_vars

\* C6: from Idle, an accepted delete of a present id followed by ticks only:
\* after tick k < 5 the record is {id, 5 - k}; the 5th tick leaves the
\* controller Idle with the id absent (in the state the queued updates
\* give, which is the rendered state once React has rendered them).
C6_FiveTicksFinalize ==
  (cycle # NoCycle /\ cycle.fromIdle /\ cycle.present) =>
    /\ cycle.phase = "pending" =>
         /\ cycle.ticks \in 0..(UndoWindow - 1)
         /\ Now.pending = [id |-> cycle.id,
                           secondsLeft |-> UndoWindow - cycle.ticks]
         /\ cycle.id \notin Ids(Now.shots)
    /\ cycle.phase = "expired" =>
         /\ cycle.ticks = UndoWindow
         /\ Now.pending = NULL
         /\ cycle.id \notin Ids(Now.shots)

\* C6 witness: the 5th tick of such a cycle has just run
C6_Witness ==
  /\ cycle # NoCycle
  /\ cycle.fromIdle /\ cycle.present
  /\ cycle.phase = "expired"
  /\ cycle.ticks = UndoWindow
  /\ Stable
  /\ Idle

\* C7: from Idle, an accepted delete of a present id, k ticks (0 <= k <= 4)
\* and then undoDelete leave shots as it was before the delete, and the
\* controller Idle with no tick armed, both as rendered when the click
\* returns and once the ticks still queued have been rendered.
C7_DeleteUndoRoundTrip ==
  (cycle # NoCycle /\ cycle.fromIdle /\ cycle.present
     /\ cycle.phase = "undone") =>
    /\ cycle.ticks \in 0..(UndoWindow - 1)
    /\ shots = cycle.before
    /\ Idle
    /\ Now = [shots |-> cycle.before, pending |-> NULL]
    /\ ~effect
    /\ interval = NULL

\* C7 witness: the undo came after 2 ticks, on a list that had lost an item
C7_Witness ==
  /\ cycle # NoCycle
  /\ cycle.fromIdle /\ cycle.present
  /\ cycle.phase = "undone"
  /\ cycle.ticks = 2
  /\ cycle.before # initialShots
  /\ shots = cycle.before

\* C8: undoDelete while Idle is a no-op: shots and pending are unchanged,
\* no timer is started or stopped.
C8_UndoIdleNoOp ==
  [][Idle /\ UndoCall =>
       UNCHANGED <<shots, pending, queue, effect, interval, timers>>]_vars

\* C8 witness: undoDelete has just been called in Idle, on a list that has
\* lost items (an undo in Pending would have put one of them back)
C8_Witness ==
  /\ last = "undo"
  /\ Idle
  /\ Ids(shots) \cap (1..MaxUndoIds) = {}
  /\ interval = NULL

\* C9: a press session that got a press-end or press-cancel event before
\* its timer was due never emits a long-press.
C9_EndedSessionNeverEmits ==
  [][TimerFire => ~Head(timers).ended]_vars

\* C10: a session held for T without end or cancel emits exactly one
\* long-press: no armed timer is ever overdue, the callback that runs
\* consumes its session, and a session leaves the armed set only by firing
\* or by an end event.
C10_ExactlyOneLongPress ==
  [][/\ \A k \in 1..Len(timers') : timers'[k].left \in 0..LongPressMs
     /\ TimerFire => Len(timers') = Len(timers) - 1
     /\ Len(timers') < Len(timers) =>
          \/ TimerFire
          \/ \E id \in 1..MaxPressId : \E ev \in EndHandled : EndPress(id, ev)
    ]_vars

\* C10 witness: the only armed timer has fired and its long-press was
\* accepted for an item that was in the list
C10_Witness ==
  /\ cycle # NoCycle
  /\ cycle.phase = "pending" /\ cycle.ticks = 0
  /\ cycle.fromIdle /\ cycle.present
  /\ timers = << >>

\* the armed timers of the mounted ShotItem of id
ArmedOf(id) ==
  {k \in 1..Len(timers) :
     timers[k].id = id /\ timers[k].owner \in {"ref", "mounted"}}

\* C11: at most one press timer is armed per ShotItem instance at any time
\* (a startPress while one is armed cancels and replaces it).
C11_OneTimerPerShotItem ==
  \A id \in ShotIds : Cardinality(ArmedOf(id)) <= 1

\* C12: the tick is cancelled on every exit from Pending: no interval is
\* armed while the controller of the mounted HistoryScreen is Idle, whether
\* or not React has work left; once HistoryScreen is unmounted none is
\* armed as soon as React has run its cleanup (line 151), an effect that
\* follows the unmount; one is armed while the controller is Pending and
\* React has no work left; the tick callback of the mounted screen runs
\* only in Pending, that of an unmounted screen changes nothing; and a
\* second that elapses in Idle leaves the controller Idle with no tick
\* armed and shots unchanged.
C12_TickCancelledOnExit ==
  [][/\ (shown' = "history" /\ Idle') => interval' = NULL
     /\ (Pending' /\ Stable') =>
          interval' # NULL /\ interval'.left \in {0, TickMs}
     /\ (shown' # "history" /\ ~effect') => interval' = NULL
     /\ IntervalTick => Pending
     /\ DeadTick => UNCHANGED <<shots, pending, queue>>
     /\ (Idle /\ Advance) =>
          Idle' /\ interval' = NULL /\ shots' = shots]_vars

\* C12 witness: an undo has just ended a cycle that had counted a tick; the
\* interval is off while press timers are still armed, so time goes on
C12_Witness ==
  /\ cycle # NoCycle
  /\ cycle.phase = "undone" /\ cycle.ticks >= 1
  /\ Idle
  /\ interval = NULL
  /\ timers # << >>

\* C13: while HistoryScreen stays mounted, a tick never changes shots; the
\* list changes only by a long-press the handler accepts (exactly the
\* requested id leaves) and by undoDelete in Pending (exactly the pending id
\* comes back), and what is shown changes only when React renders that;
\* press start and end events change neither shots nor pending.
C13_OnlyControllerMutatesShots ==
  [][/\ Now'.shots # Now.shots => ~IntervalTick
     /\ (Now'.shots # Now.shots /\ shown' = shown) =>
          \/ /\ Delivered
             /\ Now'.shots = FilterOut(Now.shots, Head(timers).id)
          \/ /\ Pending /\ UndoDelete
             /\ Ids(Now'.shots) = Ids(Now.shots) \cup {pending.id}
             /\ Len(Now'.shots) = Len(Now.shots) + 1
     /\ (shots' # shots /\ shown' = shown) =>
          shots' = Now.shots \/ (Pending /\ UndoDelete)
     /\ (shots' # shots \/ pending' # pending \/ queue' # queue) =>
          /\ \A id \in 1..MaxPressId : ~StartPress(id)
          /\ \A id \in 1..MaxPressId : \A ev \in PressEndEvents :
               ~EndPress(id, ev)]_vars

\* C13 witness: the finalizing 5th tick has been rendered, on a list that
\* had already lost another item
C13_Witness ==
  /\ cycle # NoCycle
  /\ cycle.phase = "expired" /\ cycle.ticks = UndoWindow
  /\ Stable
  /\ shots = FilterOut(cycle.before, cycle.id)
  /\ Len(shots) <= NumShots - 2

\* C16: shots is strictly ascending by id, holds only ids of the initial
\* list, and never holds the pending id.
C16_StoreWellFormed ==
  /\ \A k \in 1..(Len(shots) - 1) : shots[k].id < shots[k + 1].id
  /\ Ids(shots) \subseteq ShotIds
  /\ Pending => pending.id \notin Ids(shots)
  /\ \A k \in 1..(Len(Now.shots) - 1) : Now.shots[k].id < Now.shots[k + 1].id
  /\ Now.pending # NULL => Now.pending.id \notin Ids(Now.shots)

\* C16 witness: an undo has just put an item back into a list that lacks
\* another one
C16_Witness ==
  /\ cycle # NoCycle
  /\ cycle.phase = "undone"
  /\ cycle.id \in Ids(shots)
  /\ Len(shots) < NumShots

\* C17: a pending record has secondsLeft in 1..5; while the controller stays
\* Pending secondsLeft never increases, and a tick lowers it by exactly 1.
C17_CountdownMonotone ==
  [][/\ Pending' => pending'.secondsLeft \in 1..UndoWindow
     /\ (Pending /\ Pending' /\ shown' = shown) =>
          pending'.secondsLeft <= pending.secondsLeft
     /\ (IntervalTick /\ Now'.pending # NULL) =>
          Now'.pending.secondsLeft = Now.pending.secondsLeft - 1]_vars

\* C18: once its ShotItem is unmounted (its id left shots, or History was
\* left), a press timer that fires queues no update: shots and pending stay
\* as they are.
C18_TimerDiesWithItem ==
  [][(TimerFire /\ Head(timers).owner \in {"unmounted", "gone"}) =>
       queue' = queue]_vars

\* C14: under fair timers every Pending cycle ends (Pending leads to Idle),
\* and every entry into Pending, whatever came before, starts at
\* secondsLeft = 5 with a freshly armed tick one period away.
C14_EveryCycleEnds ==
  /\ Pending ~> Idle
  /\ [][/\ (Idle /\ Pending') =>
             pending'.secondsLeft = UndoWindow /\ effect'
        /\ (Pending /\ RunEffect) => interval' = [left |-> TickMs]]_vars

\* C14 witness: a new cycle has just started at 5 with a fresh tick after
\* an earlier cycle ran to its end
C14_Witness ==
  /\ cycle # NoCycle
  /\ cycle.phase = "pending" /\ cycle.ticks = 0 /\ cycle.fromIdle
  /\ finalized # {}
  /\ Stable
  /\ Pending /\ pending.secondsLeft = UndoWindow
  /\ interval = [left |-> TickMs]

\* C15: the press detector is re-armable.  Whatever sessions the ShotItem
\* had before (cancelled, or fired and rejected), a startPress on a mounted
\* item arms one new timer with the full 3000 ms that becomes the item's
\* timerRef; earlier timers are left as they were, every armed timer loses
\* exactly the elapsed time, and a timer fires only when its time is up.
C15_PressRearmable ==
  [][/\ \A id \in 1..MaxPressId : StartPress(id) =>
          /\ Len(timers') = Len(timers) + 1
          /\ timers'[Len(timers')] =
               [id |-> id, left |-> LongPressMs,
                sawPending |-> Pending, owner |-> "ref", ended |-> FALSE]
          /\ timerRef(timers', id) = Len(timers')
          /\ \A k \in 1..Len(timers) : timers'[k].left = timers[k].left
     /\ Advance => \A k \in 1..Len(timers) :
                     timers'[k].left = timers[k].left - TickMs
     /\ TimerFire => Head(timers).left = 0]_vars

\* C15 witness: late in the undo window of item 2, the session on item 1 has
\* just ended by a rejected firing and the startPress that followed has armed
\* the only timer
C15_Witness ==
  /\ last = "rearm"
  /\ Pending /\ pending.id = 2 /\ pending.secondsLeft <= 2
  /\ timers = << [id |-> 1, left |-> LongPressMs, sawPending |-> TRUE,
                  owner |-> "ref", ended |-> FALSE] >>

====
